---- MODULE Spec2Model ----
(***************************************************************************)
(* Model of extract_keyframes.py: scene detection, per-scene selection of  *)
(* the start / mid / end frame indices, and save_frame (clamp, seek, read  *)
(* with one retry, mkdir, imwrite).  The video backend, the file system    *)
(* and the scene detector are the environment: every value they return is  *)
(* chosen nondeterministically, and pathlib's mkdir may raise.             *)
(***************************************************************************)
EXTENDS Integers, Sequences, FiniteSets, TLC

\* ---- bounds of the model ------------------------------------------------
MaxScenes == 2      \* longest boundary list the detector returns
MaxFrame == 2       \* largest frame number of a FrameTimecode in that list

VARIABLES
    pc,             \* position in extract_keyframes
    fault,          \* exception that left extract_keyframes, or "none"
    scenes,         \* scene_manager.get_scene_list(): <<start, end>> frame numbers
    cap,            \* cv2.VideoCapture handle: "none", "open", "failed", "released"
    releases,       \* number of cap.release() calls
    capFrameCount,  \* cap.get(CAP_PROP_FRAME_COUNT) of the handle
    capPos,         \* CAP_PROP_POS_FRAMES as last set by a seek (-1: never set)
    i,              \* loop ordinal of enumerate(scenes, start=1)
    start_f, mid_f, end_f,
    ok1, ok2, ok3,  \* "unbound", "True" or "False"
    sfpc,           \* position in save_frame ("idle": no call in progress)
    frame_idx,      \* save_frame's frame_idx after the clamp
    out_path,       \* save_frame's out_path
    seeks, reads,   \* cap.set / cap.read calls made by the current save_frame call
    r1, r2,         \* result of the first / second read: "none", "ok", "fail"
    retval,         \* value the current save_frame call returns
    attempts,       \* save_frame calls made so far: [scene, role, req, path]
    printed,        \* console lines
    dirCreated,     \* out_path.parent.mkdir has succeeded
    fileWritten     \* some cv2.imwrite call has written its file

vars == <<pc, fault, scenes, cap, releases, capFrameCount, capPos, i,
          start_f, mid_f, end_f, ok1, ok2, ok3, sfpc, frame_idx, out_path,
          seeks, reads, r1, r2, retval, attempts, printed, dirCreated, fileWritten>>

\* ---- pure helpers ---------------------------------------------------------
Min(a, b) == IF a < b THEN a ELSE b
Max(a, b) == IF a > b THEN a ELSE b

\* (variant: the clamp without its lower bound)
Clamp_NoLowerBound(idx, total) == Min(idx, total - 1)

\* frame_idx = max(0, min(frame_idx, total - 1))
Clamp(idx, total) == Max(0, Min(idx, total - 1))

\* (variant: no guard against end_f < start_f)
FrameRange_NoGuard(s, e) ==
    [start |-> s, mid |-> (s + (e - 1)) \div 2, end |-> e - 1]

\* (variant: the guard compares the exclusive end, not end - 1)
FrameRange_GuardOffByOne(s, e) ==
    LET endf == IF e < s THEN s ELSE e - 1
    IN  [start |-> s, mid |-> (s + endf) \div 2, end |-> endf]

\* (variant: the exclusive end is taken as the last frame)
FrameRange_EndExclusive(s, e) ==
    LET endf == IF e < s THEN s ELSE e
    IN  [start |-> s, mid |-> (s + endf) \div 2, end |-> endf]

\* start_f, mid_f, end_f of one (start_time, end_time) boundary
FrameRange(s, e) ==
    LET endf == IF e - 1 < s THEN s ELSE e - 1
    IN  [start |-> s, mid |-> (s + endf) \div 2, end |-> endf]

\* "not ret or frame is None" is the failure test of a read
ReadOk(ret, frameNone) == ret /\ ~frameNone

Digit(d) ==
    CASE d = 0 -> "0" [] d = 1 -> "1" [] d = 2 -> "2" [] d = 3 -> "3"
      [] d = 4 -> "4" [] d = 5 -> "5" [] d = 6 -> "6" [] d = 7 -> "7"
      [] d = 8 -> "8" [] d = 9 -> "9"

RECURSIVE Decimal(_)
Decimal(n) == IF n < 10 THEN Digit(n) ELSE Decimal(n \div 10) \o Digit(n % 10)

RECURSIVE ZeroPad(_, _)
ZeroPad(str, width) == IF Len(str) >= width THEN str ELSE ZeroPad("0" \o str, width)

\* f"{i:03d}"
Format03d(n) == ZeroPad(Decimal(n), 3)

OutDir == "images"

\* (variant: the ordinal counted from 0)
OutPath_ZeroBased(n, role) ==
    OutDir \o "/" \o "scene_" \o Format03d(n - 1) \o "_" \o role \o ".jpg"

\* out_dir / f"scene_{i:03d}_{role}.jpg"
OutPath(n, role) == OutDir \o "/" \o "scene_" \o Format03d(n) \o "_" \o role \o ".jpg"

Roles == <<"start", "mid", "end">>

\* ---- inputs ---------------------------------------------------------------
Frames == 0..MaxFrame
Boundaries == Frames \X Frames
RECURSIVE ListsUpTo(_)
ListsUpTo(n) ==
    IF n = 0 THEN {<<>>}
    ELSE LET shorter == ListsUpTo(n - 1)
         IN  shorter \cup {Append(l, b) : l \in {x \in shorter : Len(x) = n - 1}, b \in Boundaries}

\* the two-scene scenario: a 300-frame video with one cut at frame 150
Scenario == <<<<0, 150>>, <<150, 300>>>>
SceneLists == ListsUpTo(MaxScenes) \cup {Scenario}
\* frame counts the handle may report: none, one, fewer frames than the
\* detector's largest frame number needs, and the scenario's
FrameCounts == {0, 1, MaxFrame, Scenario[2][2]}

\* ---- initial state --------------------------------------------------------
Init ==
    /\ pc = "detect" /\ fault = "none" /\ scenes = <<>>
    /\ cap = "none" /\ releases = 0 /\ capFrameCount = 0 /\ capPos = -1
    /\ i = 0 /\ start_f = 0 /\ mid_f = 0 /\ end_f = 0
    /\ ok1 = "unbound" /\ ok2 = "unbound" /\ ok3 = "unbound"
    /\ sfpc = "idle" /\ frame_idx = 0 /\ out_path = ""
    /\ seeks = 0 /\ reads = 0 /\ r1 = "none" /\ r2 = "none" /\ retval = FALSE
    /\ attempts = <<>> /\ printed = <<>> /\ dirCreated = FALSE /\ fileWritten = FALSE

sfVars == <<sfpc, frame_idx, out_path, seeks, reads, r1, r2, retval, capPos,
            attempts, dirCreated, fileWritten>>

\* ---- extract_keyframes ----------------------------------------------------
\* open_video raises (bad path, undecodable file)
OpenVideoFail ==
    /\ pc = "detect"
    /\ pc' = "raised" /\ fault' = "VideoOpenFailure"
    /\ UNCHANGED <<scenes, cap, releases, capFrameCount, i, start_f, mid_f, end_f,
                   ok1, ok2, ok3, printed>>
    /\ UNCHANGED sfVars

\* open_video .. get_scene_list
DetectScenes ==
    /\ pc = "detect"
    /\ \E l \in SceneLists : scenes' = l
    /\ pc' = "check"
    /\ UNCHANGED <<fault, cap, releases, capFrameCount, i, start_f, mid_f, end_f,
                   ok1, ok2, ok3, printed>>
    /\ UNCHANGED sfVars

\* if not scenes: print; return
NoScenes ==
    /\ pc = "check" /\ scenes = <<>>
    /\ printed' = Append(printed, [line |-> "no_scenes"])
    /\ pc' = "done"
    /\ UNCHANGED <<fault, scenes, cap, releases, capFrameCount, i, start_f, mid_f, end_f,
                   ok1, ok2, ok3>>
    /\ UNCHANGED sfVars

\* cap = cv2.VideoCapture(..); isOpened() is False: raise RuntimeError
OpenCaptureFail ==
    /\ pc = "check" /\ scenes # <<>>
    /\ cap' = "failed"
    /\ pc' = "raised" /\ fault' = "RuntimeError"
    /\ UNCHANGED <<scenes, releases, capFrameCount, i, start_f, mid_f, end_f,
                   ok1, ok2, ok3, printed>>
    /\ UNCHANGED sfVars

\* (variant: the handle is opened without the empty-list return before it)
OpenCapture_Unguarded ==
    /\ pc = "check"
    /\ cap' = "open"
    /\ \E n \in FrameCounts : capFrameCount' = n
    /\ printed' = Append(printed, [line |-> "totals", scenes |-> Len(scenes),
                                   frames |-> capFrameCount'])
    /\ pc' = "loop"
    /\ UNCHANGED <<fault, scenes, releases, i, start_f, mid_f, end_f, ok1, ok2, ok3>>
    /\ UNCHANGED sfVars

\* cap = cv2.VideoCapture(..); total_frames = ..; print
OpenCapture ==
    /\ pc = "check" /\ scenes # <<>>
    /\ cap' = "open"
    /\ \E n \in FrameCounts : capFrameCount' = n
    /\ printed' = Append(printed, [line |-> "totals", scenes |-> Len(scenes),
                                   frames |-> capFrameCount'])
    /\ pc' = "loop"
    /\ UNCHANGED <<fault, scenes, releases, i, start_f, mid_f, end_f, ok1, ok2, ok3>>
    /\ UNCHANGED sfVars

\* loop head and the frame selection of one scene
SelectFrames ==
    /\ pc = "loop" /\ i < Len(scenes)
    /\ i' = i + 1
    /\ LET fr == FrameRange(scenes[i + 1][1], scenes[i + 1][2])
       IN  start_f' = fr.start /\ mid_f' = fr.mid /\ end_f' = fr.end
    /\ pc' = "save_start"
    /\ UNCHANGED <<fault, scenes, cap, releases, capFrameCount, ok1, ok2, ok3, printed>>
    /\ UNCHANGED sfVars

RoleOf(p) == CASE p = "save_start" -> "start" [] p = "save_mid" -> "mid" [] p = "save_end" -> "end"
ReqOf(p) == CASE p = "save_start" -> start_f [] p = "save_mid" -> mid_f [] p = "save_end" -> end_f
AfterSave(p) == CASE p = "save_start" -> "save_mid" [] p = "save_mid" -> "save_end"
                  [] p = "save_end" -> "print"
SavePcs == {"save_start", "save_mid", "save_end"}

mainVars == <<fault, scenes, cap, releases, capFrameCount, i, start_f, mid_f, end_f, printed>>

\* ---- save_frame -----------------------------------------------------------
\* call with total <= 0: return False
SaveFrameNoFrames ==
    /\ pc \in SavePcs /\ sfpc = "idle"
    /\ capFrameCount <= 0
    /\ out_path' = OutPath(i, RoleOf(pc))
    /\ attempts' = Append(attempts, [scene |-> i, role |-> RoleOf(pc), req |-> ReqOf(pc),
                                     path |-> out_path'])
    /\ retval' = FALSE /\ sfpc' = "ret"
    /\ UNCHANGED <<pc, ok1, ok2, ok3, frame_idx, seeks, reads, r1, r2, capPos,
                   dirCreated, fileWritten>>
    /\ UNCHANGED mainVars

\* call with total > 0: clamp frame_idx
SaveFrameClamp ==
    /\ pc \in SavePcs /\ sfpc = "idle"
    /\ capFrameCount > 0
    /\ out_path' = OutPath(i, RoleOf(pc))
    /\ attempts' = Append(attempts, [scene |-> i, role |-> RoleOf(pc), req |-> ReqOf(pc),
                                     path |-> out_path'])
    /\ frame_idx' = Clamp(ReqOf(pc), capFrameCount)
    /\ sfpc' = "seek"
    /\ UNCHANGED <<pc, ok1, ok2, ok3, seeks, reads, r1, r2, retval, capPos,
                   dirCreated, fileWritten>>
    /\ UNCHANGED mainVars

\* cap.set(cv2.CAP_PROP_POS_FRAMES, frame_idx)
Seek ==
    /\ sfpc = "seek"
    /\ capPos' = frame_idx
    /\ seeks' = seeks + 1
    /\ sfpc' = "read1"
    /\ UNCHANGED <<pc, ok1, ok2, ok3, frame_idx, out_path, reads, r1, r2, retval,
                   attempts, dirCreated, fileWritten>>
    /\ UNCHANGED mainVars

\* ret, frame = cap.read(); if not ret or frame is None: (retry)
Read1 ==
    /\ sfpc = "read1"
    /\ reads' = reads + 1
    /\ \E ret \in BOOLEAN, frameNone \in BOOLEAN :
          IF ReadOk(ret, frameNone)
          THEN r1' = "ok" /\ sfpc' = "mkdir"
          ELSE r1' = "fail" /\ sfpc' = "read2"
    /\ UNCHANGED <<pc, ok1, ok2, ok3, frame_idx, out_path, seeks, r2, retval, capPos,
                   attempts, dirCreated, fileWritten>>
    /\ UNCHANGED mainVars

\* (variant: the retry is a loop that reads again after a second failure)
Read2_RetryAgain ==
    /\ sfpc = "read2"
    /\ reads' = reads + 1
    /\ \E ret \in BOOLEAN, frameNone \in BOOLEAN :
          IF ReadOk(ret, frameNone)
          THEN r2' = "ok" /\ sfpc' = "mkdir" /\ retval' = retval
          ELSE /\ r2' = "fail" /\ retval' = FALSE
               /\ sfpc' = IF reads < 2 THEN "read2" ELSE "ret"
    /\ UNCHANGED <<pc, ok1, ok2, ok3, frame_idx, out_path, seeks, r1, capPos,
                   attempts, dirCreated, fileWritten>>
    /\ UNCHANGED mainVars

\* the retry: ret, frame = cap.read(); if not ret or frame is None: return False
Read2 ==
    /\ sfpc = "read2"
    /\ reads' = reads + 1
    /\ \E ret \in BOOLEAN, frameNone \in BOOLEAN :
          IF ReadOk(ret, frameNone)
          THEN r2' = "ok" /\ sfpc' = "mkdir" /\ retval' = retval
          ELSE r2' = "fail" /\ sfpc' = "ret" /\ retval' = FALSE
    /\ UNCHANGED <<pc, ok1, ok2, ok3, frame_idx, out_path, seeks, r1, capPos,
                   attempts, dirCreated, fileWritten>>
    /\ UNCHANGED mainVars

\* out_path.parent.mkdir(parents=True, exist_ok=True) succeeds
Mkdir ==
    /\ sfpc = "mkdir"
    /\ dirCreated' = TRUE
    /\ sfpc' = "imwrite"
    /\ UNCHANGED <<pc, ok1, ok2, ok3, frame_idx, out_path, seeks, reads, r1, r2, retval,
                   capPos, attempts, fileWritten>>
    /\ UNCHANGED mainVars

\* out_path.parent.mkdir raises OSError (parent not writable, or a file of that
\* name exists); nothing in save_frame or extract_keyframes catches it, so it
\* leaves both and cap.release() is not reached.  Once the directory exists,
\* exist_ok=True makes the call a no-op.
MkdirRaise ==
    /\ sfpc = "mkdir"
    /\ ~dirCreated
    /\ pc' = "raised" /\ fault' = "OSError"
    /\ sfpc' = "idle"
    /\ frame_idx' = 0 /\ out_path' = "" /\ seeks' = 0 /\ reads' = 0
    /\ r1' = "none" /\ r2' = "none" /\ retval' = FALSE
    /\ UNCHANGED <<scenes, cap, releases, capFrameCount, i, start_f, mid_f, end_f,
                   ok1, ok2, ok3, printed, capPos, attempts, dirCreated, fileWritten>>

\* return cv2.imwrite(str(out_path), frame)
Imwrite ==
    /\ sfpc = "imwrite"
    /\ \E written \in BOOLEAN :
          /\ retval' = written
          /\ fileWritten' = (fileWritten \/ written)
    /\ sfpc' = "ret"
    /\ UNCHANGED <<pc, ok1, ok2, ok3, frame_idx, out_path, seeks, reads, r1, r2,
                   capPos, attempts, dirCreated>>
    /\ UNCHANGED mainVars

PyBool(b) == IF b THEN "True" ELSE "False"

\* ok1 / ok2 / ok3 = save_frame(...): the call returns, its locals are gone
SaveFrameReturn ==
    /\ sfpc = "ret"
    /\ ok1' = IF pc = "save_start" THEN PyBool(retval) ELSE ok1
    /\ ok2' = IF pc = "save_mid" THEN PyBool(retval) ELSE ok2
    /\ ok3' = IF pc = "save_end" THEN PyBool(retval) ELSE ok3
    /\ pc' = AfterSave(pc)
    /\ sfpc' = "idle"
    /\ frame_idx' = 0 /\ out_path' = "" /\ seeks' = 0 /\ reads' = 0
    /\ r1' = "none" /\ r2' = "none" /\ retval' = FALSE
    /\ UNCHANGED <<capPos, attempts, dirCreated, fileWritten>>
    /\ UNCHANGED mainVars

\* print(f"[Scene {i:03d}] frames [..] -> saved: ..") ends the iteration
PrintScene ==
    /\ pc = "print"
    /\ printed' = Append(printed, [line |-> "scene", scene |-> Format03d(i),
                                   frames |-> <<start_f, mid_f, end_f>>])
    /\ ok1' = "unbound" /\ ok2' = "unbound" /\ ok3' = "unbound"
    /\ pc' = "loop"
    /\ UNCHANGED <<fault, scenes, cap, releases, capFrameCount, i, start_f, mid_f, end_f>>
    /\ UNCHANGED sfVars

\* the loop is exhausted: cap.release(); print; return
Release ==
    /\ pc = "loop" /\ i >= Len(scenes)
    /\ cap' = "released"
    /\ releases' = releases + 1
    /\ printed' = Append(printed, [line |-> "done"])
    /\ pc' = "done"
    /\ UNCHANGED <<fault, scenes, capFrameCount, i, start_f, mid_f, end_f, ok1, ok2, ok3>>
    /\ UNCHANGED sfVars

Next ==
    \/ OpenVideoFail \/ DetectScenes \/ NoScenes \/ OpenCaptureFail \/ OpenCapture
    \/ SelectFrames \/ SaveFrameNoFrames \/ SaveFrameClamp \/ Seek \/ Read1 \/ Read2
    \/ Mkdir \/ MkdirRaise \/ Imwrite \/ SaveFrameReturn \/ PrintScene \/ Release

Spec == Init /\ [][Next]_vars

\* ---- save_frame called on its own ------------------------------------------
\* save_frame(cap, frame_idx, out_path) on an open handle, for three calls with
\* any frame_idx, negative ones and ones past the end included
FrameArgs == (-1)..(MaxFrame + 1)

InitSaveFrame ==
    /\ pc = "save_start" /\ fault = "none" /\ scenes = <<>>
    /\ cap = "open" /\ releases = 0 /\ capFrameCount \in FrameCounts /\ capPos = -1
    /\ i = 1 /\ start_f \in FrameArgs /\ mid_f \in FrameArgs /\ end_f \in FrameArgs
    /\ ok1 = "unbound" /\ ok2 = "unbound" /\ ok3 = "unbound"
    /\ sfpc = "idle" /\ frame_idx = 0 /\ out_path = ""
    /\ seeks = 0 /\ reads = 0 /\ r1 = "none" /\ r2 = "none" /\ retval = FALSE
    /\ attempts = <<>> /\ printed = <<>> /\ dirCreated = FALSE /\ fileWritten = FALSE

NextSaveFrame ==
    \/ SaveFrameNoFrames \/ SaveFrameClamp \/ Seek \/ Read1 \/ Read2
    \/ Mkdir \/ MkdirRaise \/ Imwrite \/ SaveFrameReturn

SpecSaveFrame == InitSaveFrame /\ [][NextSaveFrame]_vars

\* ---- properties -------------------------------------------------------------
Terminated == pc \in {"done", "raised"}
HandleOpened == cap \in {"open", "released"}
TripleSelected == pc \in SavePcs \cup {"print"}
InCall == sfpc \in {"seek", "read1", "read2", "mkdir", "imwrite"}
LastAttempt == attempts[Len(attempts)]

\* C1: once the extraction handle has been opened, every way out of the run
\* (normal return or a raised fault) has released it exactly once.
C1_ReleasedOnEveryExit ==
    (Terminated /\ HandleOpened) => (cap = "released" /\ releases = 1)

\* C2 as stated: every selected triple satisfies
\* 0 <= start_f <= mid_f <= end_f <= total_frame_count - 1.
C2_OrderedWithinFrameCount ==
    TripleSelected =>
        (0 <= start_f /\ start_f <= mid_f /\ mid_f <= end_f /\ end_f <= capFrameCount - 1)

\* C2 amended: every selected and every reported triple satisfies
\* 0 <= start_f <= mid_f <= end_f; end_f <= total_frame_count - 1 holds when the
\* boundary lies inside the video (start < total_frame_count and
\* end <= total_frame_count), the triple itself is not clamped.
C2_Ordered ==
    /\ TripleSelected =>
          /\ 0 <= start_f /\ start_f <= mid_f /\ mid_f <= end_f
          /\ (scenes[i][1] < capFrameCount /\ scenes[i][2] <= capFrameCount)
                => end_f <= capFrameCount - 1
    /\ \A k \in 1..Len(printed) :
          printed[k].line = "scene" =>
              /\ 0 <= printed[k].frames[1]
              /\ printed[k].frames[1] <= printed[k].frames[2]
              /\ printed[k].frames[2] <= printed[k].frames[3]

C2_Witness ==
    /\ pc = "print" /\ capFrameCount > 0
    /\ start_f < mid_f /\ mid_f < end_f /\ end_f > capFrameCount - 1

\* C3: a save_frame call with frames available seeks exactly once and reads at
\* most twice; the second read happens only after a failed first one; a failed
\* read followed by a good one goes on to the write; two failed reads return
\* False.
C3_RetryBound ==
    /\ seeks <= 1 /\ reads <= 2
    /\ sfpc \in {"read1", "read2", "mkdir", "imwrite"} => seeks = 1
    /\ (sfpc = "ret" /\ capFrameCount > 0) => (seeks = 1 /\ reads \in {1, 2})
    /\ sfpc = "read1" => reads = 0
    /\ sfpc = "read2" => (reads = 1 /\ r1 = "fail")
    /\ r1 = "ok" => (reads = 1 /\ r2 = "none")
    /\ reads = 2 => r1 = "fail"
    /\ (r1 = "fail" /\ r2 = "ok") => sfpc \in {"mkdir", "imwrite", "ret"}
    /\ (r1 = "fail" /\ r2 = "ok" /\ sfpc = "ret") => dirCreated
    /\ (r1 = "fail" /\ r2 = "fail") => (sfpc = "ret" /\ ~retval)

C3_Witness == sfpc = "imwrite" /\ r1 = "fail" /\ r2 = "ok" /\ seeks = 1 /\ reads = 2

\* C4: with N scenes and an opened handle the run makes exactly 3*N save_frame
\* calls, scene by scene and start, mid, end within a scene.
C4_AllAttemptsMade ==
    (Terminated /\ HandleOpened) =>
        /\ Len(attempts) = 3 * Len(scenes)
        /\ \A k \in 1..Len(attempts) :
              /\ attempts[k].scene = ((k - 1) \div 3) + 1
              /\ attempts[k].role = Roles[((k - 1) % 3) + 1]

\* C5: a write failure (mkdir or imwrite) never leaves extract_keyframes as a
\* fault: the only faults of a run are the two open failures.
C5_WriteFailureNotFatal ==
    pc = "raised" => fault \in {"VideoOpenFailure", "RuntimeError"}

\* C6: with an empty scene list the run never opens the extraction handle, never
\* seeks, reads, creates the directory or writes, and ends normally after the
\* no-scenes diagnostic.
C6_NoScenePath ==
    scenes = <<>> =>
        /\ cap = "none" /\ releases = 0
        /\ capPos = -1 /\ seeks = 0 /\ reads = 0 /\ sfpc = "idle"
        /\ attempts = <<>> /\ ~dirCreated /\ ~fileWritten
        /\ pc \in {"detect", "check", "done", "raised"}
        /\ pc = "done" => (printed = <<[line |-> "no_scenes"]>> /\ fault = "none")
        /\ pc = "raised" => (fault = "VideoOpenFailure" /\ printed = <<>>)

C6_Witness == pc = "done" /\ scenes = <<>> /\ printed # <<>>

\* C7: save_frame with total_frame_count <= 0 returns False without seek, read,
\* mkdir or write; otherwise it seeks to max(0, min(frame_idx, total - 1)), which
\* lies in [0, total - 1].
C7_ClampedSeek ==
    /\ capFrameCount <= 0 =>
          /\ seeks = 0 /\ reads = 0 /\ capPos = -1 /\ ~dirCreated /\ ~fileWritten
          /\ sfpc \in {"idle", "ret"}
          /\ sfpc = "ret" => ~retval
          /\ ok1 # "True" /\ ok2 # "True" /\ ok3 # "True"
    /\ InCall =>
          /\ capFrameCount > 0
          /\ 0 <= frame_idx /\ frame_idx <= capFrameCount - 1
          /\ frame_idx = (IF LastAttempt.req < 0 THEN 0
                          ELSE IF LastAttempt.req > capFrameCount - 1 THEN capFrameCount - 1
                          ELSE LastAttempt.req)
          /\ seeks = 1 => capPos = frame_idx
    /\ capPos # -1 => (0 <= capPos /\ capPos <= capFrameCount - 1)

C7_Witness ==
    sfpc = "read1" /\ LastAttempt.req >= capFrameCount /\ capPos = capFrameCount - 1

\* C8: a boundary whose end frame (end - 1) is below its start frame yields
\* end_f = mid_f = start_f, and the three calls of that scene ask for that index.
C8_Degenerate ==
    /\ (TripleSelected /\ scenes[i][2] - 1 < scenes[i][1]) =>
          (start_f = scenes[i][1] /\ end_f = start_f /\ mid_f = start_f)
    /\ \A k \in 1..Len(attempts) :
          LET b == scenes[attempts[k].scene]
          IN  b[2] - 1 < b[1] => attempts[k].req = b[1]

C8_Witness == pc = "print" /\ scenes[i][2] < scenes[i][1] /\ Len(attempts) = 3 * i

\* C9: a boundary (s, e) with e > s yields start = s, end = e - 1 and
\* mid = floor((s + e - 1) / 2); the calls get <out>/scene_NNN_<role>.jpg with NNN
\* the 1-based ordinal padded to three digits; the scenario (0,150),(150,300) on
\* 300 frames writes frames 0, 74, 149 and 150, 224, 299.
ExpectedName(n) ==
    "images/scene_" \o (IF n < 10 THEN "00" ELSE IF n < 100 THEN "0" ELSE "") \o Decimal(n)

ScenarioAttempts ==
    << [scene |-> 1, role |-> "start", req |-> 0, path |-> "images/scene_001_start.jpg"],
       [scene |-> 1, role |-> "mid", req |-> 74, path |-> "images/scene_001_mid.jpg"],
       [scene |-> 1, role |-> "end", req |-> 149, path |-> "images/scene_001_end.jpg"],
       [scene |-> 2, role |-> "start", req |-> 150, path |-> "images/scene_002_start.jpg"],
       [scene |-> 2, role |-> "mid", req |-> 224, path |-> "images/scene_002_mid.jpg"],
       [scene |-> 2, role |-> "end", req |-> 299, path |-> "images/scene_002_end.jpg"] >>

C9_SelectionAndNames ==
    /\ attempts # <<>> =>
          \* attempts only grows, so each call is the last one in some state
          /\ LastAttempt.path = ExpectedName(LastAttempt.scene) \o "_" \o LastAttempt.role \o ".jpg"
          /\ sfpc # "idle" => out_path = LastAttempt.path
    /\ \A k \in 1..Len(attempts) :
          LET a == attempts[k]
              s == scenes[a.scene][1]
              e == scenes[a.scene][2]
          IN  e > s =>
                    /\ a.role = "start" => a.req = s
                    /\ a.role = "end" => a.req = e - 1
                    /\ a.role = "mid" => (2 * a.req <= s + e - 1 /\ s + e - 1 <= 2 * a.req + 1)
    /\ (scenes = Scenario /\ capFrameCount = 300) =>
          /\ attempts = SubSeq(ScenarioAttempts, 1, Len(attempts))
          /\ InCall => (out_path = LastAttempt.path /\ frame_idx = LastAttempt.req)

C9_Witness ==
    /\ scenes = Scenario /\ capFrameCount = 300 /\ sfpc = "imwrite"
    /\ out_path = "images/scene_002_end.jpg" /\ frame_idx = 299 /\ Len(attempts) = 6

\* C10: for a contiguous boundary list with strictly increasing frame numbers the
\* end frame of a scene is the frame before the next scene's start, and the
\* indices selected for an earlier scene are all below those of a later one.
Contiguous(l) ==
    \A k \in 1..Len(l) :
        /\ l[k][1] < l[k][2]
        /\ k < Len(l) => l[k][2] = l[k + 1][1]

C10_NoSharedFrame ==
    Contiguous(scenes) =>
        \A j \in 1..Len(attempts) :
            /\ (attempts[j].role = "end" /\ attempts[j].scene < Len(scenes)) =>
                  (attempts[j].req = scenes[attempts[j].scene + 1][1] - 1)
            /\ \A k \in (j + 1)..Len(attempts) :
                  /\ attempts[j].scene <= attempts[k].scene
                  /\ attempts[j].scene < attempts[k].scene => attempts[j].req < attempts[k].req

C10_Witness ==
    /\ Contiguous(scenes) /\ Len(scenes) = 2 /\ scenes # Scenario
    /\ Len(attempts) = 6 /\ pc = "print"
====
